---- MODULE Spec2Model ----
(***************************************************************************)
(* A state-machine model of the portfolio/blog application in src/app.py:  *)
(* the three tables (users, projects, comments), the login session of one  *)
(* browser, and one action per route handler.  Every action records the    *)
(* response of the request it models, so that outcomes can be stated as    *)
(* state predicates.                                                        *)
(***************************************************************************)
EXTENDS Integers, FiniteSets, Sequences, TLC

VARIABLES users, projects, comments, session, response

vars == <<users, projects, comments, session, response>>

(***************************************************************************)
(* Bounds of the model.                                                    *)
(***************************************************************************)
MaxProjectId == 2
MaxComments == 2

(***************************************************************************)
(* Input domains of the requests.  A request that does not submit a valid  *)
(* form (a GET, or a POST that fails validation) is one request whatever   *)
(* its fields hold.                                                        *)
(***************************************************************************)
Emails == {"a@x.com", "b@x.com"}
Passwords == {"pw", "wrong"}
Names == {"A"}
Salts == {"salt1", "salt2"}
Titles == {"T1", "T2"}
Versions == {1, 2}
CommentTexts == {"nice"}
Days == {[year |-> 2026, month |-> 11, day |-> 4],
         [year |-> 2026, month |-> 12, day |-> 25]}
ProjectIds == 1..MaxProjectId

\* The fields of a CreateProjectForm submission.
ProjectForm(title, version) ==
    [title |-> title, subtitle |-> <<"subtitle", version>>,
     img_url |-> <<"img", version>>, body |-> <<"body", version>>]

ProjectForms == {ProjectForm(t, v) : t \in Titles, v \in Versions}

Requests(forms) ==
    {[submit |-> FALSE, form |-> CHOOSE f \in forms : TRUE]}
        \cup {[submit |-> TRUE, form |-> f] : f \in forms}

CredentialForms(emails, passwords) ==
    {[email |-> e, password |-> p] : e \in emails, p \in passwords}

(***************************************************************************)
(* Values of the data model.                                               *)
(***************************************************************************)
\* Query.get on a missing key, a session without a user id, a NULL foreign key.
None == 0

\* The administrator is the user whose id is 1.
ADMIN_ID == 1

Ids(rows) == {r.id : r \in rows}

MaxOf(S) == IF S = {} THEN 0 ELSE CHOOSE m \in S : \A x \in S : x <= m

\* Integer primary key of a table no row is ever deleted from (users,
\* comments): the next key is one more than the largest.
NextId(rows) == MaxOf(Ids(rows)) + 1

\* Integer primary key of the projects table, whose rows can be deleted and
\* whose inserts can fail: a sequence (PostgreSQL) skips the keys of deleted
\* rows and failed inserts, a rowid (SQLite) is one more than the largest.
\* Both hand out a key larger than every key in the table.
NewProjectIds == {i \in ProjectIds : i > MaxOf(Ids(projects))}

(***************************************************************************)
(* Credential store (werkzeug.security).                                   *)
(***************************************************************************)
\* The key derivation, as a collision-free function of salt and password.
PBKDF2(salt, password) == <<"sha256", salt, password>>

generate_password_hash(password, salt) ==
    [method |-> "pbkdf2:sha256", salt |-> salt, digest |-> PBKDF2(salt, password)]

check_password_hash_ignores_password(pwhash, password) ==
    \E p \in Passwords : PBKDF2(pwhash.salt, p) = pwhash.digest

check_password_hash(pwhash, password) ==
    PBKDF2(pwhash.salt, password) = pwhash.digest

(***************************************************************************)
(* Session / auth manager (flask_login).                                   *)
(***************************************************************************)
\* User.query.get(int(user_id)): the set holding the row, empty when absent.
load_user(user_id) == {u \in users : u.id = user_id}

\* current_user: the id of the user the session resolves to, None (the
\* anonymous user) when the session holds no id or the id resolves to no row.
current_user == IF load_user(session) = {} THEN None ELSE session

is_authenticated_always == TRUE

is_authenticated == current_user # None

login_user(user) == user.id

logout_user_keeps_session == session

logout_user == None

(***************************************************************************)
(* Responses.                                                              *)
(***************************************************************************)
Response(handler, kind, target, pid, flash, error) ==
    [handler |-> handler, who |-> current_user, kind |-> kind, target |-> target,
     pid |-> pid, flash |-> flash, error |-> error]

render_template(handler, template) ==
    Response(handler, "render", template, None, "", "")

redirect(handler, endpoint, pid, flash) ==
    Response(handler, "redirect", endpoint, pid, flash, "")

abort(handler) == Response(handler, "forbidden", "", None, "", "")

\* An exception no handler catches: the request ends as an internal error and
\* the database session is discarded without a commit.
unhandled(handler, error) ==
    Response(handler, "internal_error", "", None, "", error)

Init ==
    /\ users = {}
    /\ projects = {}
    /\ comments = {}
    /\ session = None
    /\ response = [handler |-> "", who |-> None, kind |-> "", target |-> "",
                   pid |-> None, flash |-> "", error |-> ""]

(***************************************************************************)
(* Store-level constraints checked at commit.                              *)
(***************************************************************************)
UniqueEmail(rows) == \A u \in rows, v \in rows : u.email = v.email => u = v

UniqueTitle(rows) == \A p \in rows, q \in rows : p.title = q.title => p = q

(***************************************************************************)
(* Authorization gate.                                                     *)
(***************************************************************************)
\* current_user.id != 1: the anonymous user object has no attribute id.
admin_only ==
    IF current_user = None THEN "AttributeError"
    ELSE IF current_user # ADMIN_ID THEN "forbidden"
    ELSE "pass"

\* The response of a gated handler whose gate did not pass.
Gated(handler) ==
    IF admin_only = "forbidden" THEN abort(handler)
    ELSE unhandled(handler, "AttributeError")

(***************************************************************************)
(* Handlers.                                                               *)
(***************************************************************************)
get_all_projects ==
    /\ response' = render_template("get_all_projects", "index.html")
    /\ UNCHANGED <<users, projects, comments, session>>

EmailTaken_never(email) == FALSE

\* User.query.filter_by(email=...).first() is truthy.
EmailTaken(email) == \E u \in users : u.email = email

register(submit, email, password, name, salt) ==
    IF ~submit
    THEN /\ response' = render_template("register", "register.html")
         /\ UNCHANGED <<users, projects, comments, session>>
    ELSE IF EmailTaken(email)
    THEN /\ response' = redirect("register", "login", None,
                                 "You've already signed up with that email, log in instead!")
         /\ UNCHANGED <<users, projects, comments, session>>
    ELSE LET new_user == [id |-> NextId(users), email |-> email, name |-> name,
                          password |-> generate_password_hash(password, salt)]
         IN  IF UniqueEmail(users \cup {new_user})
             THEN /\ users' = users \cup {new_user}
                  /\ session' = login_user(new_user)
                  /\ response' = redirect("register", "get_all_projects", None, "")
                  /\ UNCHANGED <<projects, comments>>
             ELSE /\ response' = unhandled("register", "IntegrityError")
                  /\ UNCHANGED <<users, projects, comments, session>>

login(submit, email, password) ==
    LET user == {u \in users : u.email = email}
    IN  IF ~submit
        THEN /\ response' = render_template("login", "login.html")
             /\ UNCHANGED <<users, projects, comments, session>>
        ELSE IF user = {}
        THEN /\ response' = redirect("login", "login", None,
                                     "That email does not exist, please try again.")
             /\ UNCHANGED <<users, projects, comments, session>>
        ELSE \E u \in user :
             IF ~check_password_hash(u.password, password)
             THEN /\ response' = redirect("login", "login", None,
                                          "Password incorrect, please try again.")
                  /\ UNCHANGED <<users, projects, comments, session>>
             ELSE /\ session' = login_user(u)
                  /\ response' = redirect("login", "get_all_projects", None, "")
                  /\ UNCHANGED <<users, projects, comments>>

logout ==
    /\ session' = logout_user
    /\ response' = redirect("logout", "get_all_projects", None, "")
    /\ UNCHANGED <<users, projects, comments>>

contact ==
    /\ response' = render_template("contact", "contact.html")
    /\ UNCHANGED <<users, projects, comments, session>>

(***************************************************************************)
(* Project and comment handlers.                                           *)
(***************************************************************************)
\* Project.query.get(project_id): the set holding the row, empty when absent.
ProjectGet(project_id) == {p \in projects : p.id = project_id}

MonthNames ==
    <<"January", "February", "March", "April", "May", "June", "July",
      "August", "September", "October", "November", "December">>

\* date.strftime("%B %d, %Y"): full month name, two-digit day, year.
strftime(d) == <<MonthNames[d.month], d.day \div 10, d.day % 10, ",", d.year>>

\* Rendering project.html with the requested project.  The template is given
\* None for a missing project; what it does with it is not decided by the
\* handler: the page is rendered or the template raises.
RenderProject(requested_project) ==
    IF requested_project = {}
    THEN {render_template("show_project", "project.html"),
          unhandled("show_project", "UndefinedError")}
    ELSE {render_template("show_project", "project.html")}

show_project(project_id, submit, comment_text) ==
    LET requested_project == ProjectGet(project_id)
    IN  IF submit /\ ~is_authenticated
        THEN /\ response' = redirect("show_project", "login", None,
                                     "You need to login or register to comment.")
             /\ UNCHANGED <<users, projects, comments, session>>
        ELSE /\ IF submit
                THEN LET new_comment ==
                             [id |-> NextId(comments), text |-> comment_text,
                              author_id |-> current_user,
                              project_id |-> IF requested_project = {} THEN None
                                             ELSE project_id]
                     IN  /\ Cardinality(comments) < MaxComments
                         /\ comments' = comments \cup {new_comment}
                ELSE comments' = comments
             /\ response' \in RenderProject(requested_project)
             /\ UNCHANGED <<users, projects, session>>

add_new_project(submit, form, today) ==
    IF admin_only # "pass"
    THEN /\ response' = Gated("add_new_project")
         /\ UNCHANGED <<users, projects, comments, session>>
    ELSE IF ~submit
    THEN /\ response' = render_template("add_new_project", "make-project.html")
         /\ UNCHANGED <<users, projects, comments, session>>
    ELSE \E id \in NewProjectIds :
         LET new_project == [id |-> id, author_id |-> current_user,
                             title |-> form.title, subtitle |-> form.subtitle,
                             body |-> form.body, img_url |-> form.img_url,
                             date |-> strftime(today)]
         IN  IF UniqueTitle(projects \cup {new_project})
             THEN /\ projects' = projects \cup {new_project}
                  /\ response' = redirect("add_new_project", "get_all_projects", None, "")
                  /\ UNCHANGED <<users, comments, session>>
             ELSE /\ response' = unhandled("add_new_project", "IntegrityError")
                  /\ UNCHANGED <<users, projects, comments, session>>

Edited_overwrites_author(project, form) ==
    [project EXCEPT !.title = form.title, !.subtitle = form.subtitle,
                    !.img_url = form.img_url, !.body = form.body,
                    !.author_id = None]

\* The four assignments of edit_project to the loaded row.
Edited(project, form) ==
    [project EXCEPT !.title = form.title, !.subtitle = form.subtitle,
                    !.img_url = form.img_url, !.body = form.body]

edit_project(project_id, submit, form) ==
    IF admin_only # "pass"
    THEN /\ response' = Gated("edit_project")
         /\ UNCHANGED <<users, projects, comments, session>>
    ELSE IF ProjectGet(project_id) = {}
    THEN /\ response' = unhandled("edit_project", "AttributeError")
         /\ UNCHANGED <<users, projects, comments, session>>
    ELSE IF ~submit
    THEN /\ response' = render_template("edit_project", "make-project.html")
         /\ UNCHANGED <<users, projects, comments, session>>
    ELSE \E project \in ProjectGet(project_id) :
         LET rows == (projects \ {project}) \cup {Edited(project, form)}
         IN  IF UniqueTitle(rows)
             THEN /\ projects' = rows
                  /\ response' = redirect("edit_project", "show_project", project.id, "")
                  /\ UNCHANGED <<users, comments, session>>
             ELSE /\ response' = unhandled("edit_project", "IntegrityError")
                  /\ UNCHANGED <<users, projects, comments, session>>

Orphaned_keeps_reference(project) == comments

\* db.session.delete on a parent whose relationship has no delete cascade:
\* the unit of work sets the foreign key of its children to NULL.
Orphaned(project) ==
    {IF c.project_id = project.id THEN [c EXCEPT !.project_id = None] ELSE c :
        c \in comments}

delete_project(project_id) ==
    IF admin_only # "pass"
    THEN /\ response' = Gated("delete_project")
         /\ UNCHANGED <<users, projects, comments, session>>
    ELSE IF ProjectGet(project_id) = {}
    THEN /\ response' = unhandled("delete_project", "UnmappedInstanceError")
         /\ UNCHANGED <<users, projects, comments, session>>
    ELSE \E project_to_delete \in ProjectGet(project_id) :
         /\ projects' = projects \ {project_to_delete}
         /\ comments' = Orphaned(project_to_delete)
         /\ response' = redirect("delete_project", "get_all_projects", None, "")
         /\ UNCHANGED <<users, session>>

\* One request, with its form fields drawn from the given domains.
Step(emails, passwords, salts, titles, versions, days) ==
    \/ get_all_projects
    \/ \E r \in Requests(CredentialForms(emails, passwords)),
          name \in Names, salt \in salts :
          register(r.submit, r.form.email, r.form.password, name, salt)
    \/ \E r \in Requests(CredentialForms(emails, passwords)) :
          login(r.submit, r.form.email, r.form.password)
    \/ logout
    \/ \E project_id \in ProjectIds, r \in Requests(CommentTexts) :
          show_project(project_id, r.submit, r.form)
    \/ contact
    \/ \E r \in Requests({ProjectForm(t, v) : t \in titles, v \in versions}),
          today \in days :
          add_new_project(r.submit, r.form, today)
    \/ \E project_id \in ProjectIds,
          r \in Requests({ProjectForm(t, v) : t \in titles, v \in versions}) :
          edit_project(project_id, r.submit, r.form)
    \/ \E project_id \in ProjectIds : delete_project(project_id)

\* The content side in full, with one account (the administrator's).
Next == Step({"a@x.com"}, {"pw"}, {"salt1"}, Titles, Versions, Days)

Spec == Init /\ [][Next]_vars

\* The account side in full, with one project form.
NextAuth ==
    Step(Emails, Passwords, Salts, {"T1"}, {1},
         {[year |-> 2026, month |-> 11, day |-> 4]})

SpecAuth == Init /\ [][NextAuth]_vars

(***************************************************************************)
(* Properties.                                                             *)
(***************************************************************************)
GatedHandlers == {"add_new_project", "edit_project", "delete_project"}

RedirectsTo(r, endpoint) == r.kind = "redirect" /\ r.target = endpoint

\* The password is the one the stored hash was generated from.
IsPasswordOf(user, password) ==
    \E s \in Salts : user.password = generate_password_hash(password, s)

\* C1: a request to new-project, edit-project or delete-project by anyone but
\* the administrator (the anonymous user, or a user whose id is not 1) ends
\* as Forbidden and leaves the users, projects and comments tables as they
\* were.
C1_NonAdminIsForbidden ==
    [][(response'.handler \in GatedHandlers /\ current_user # ADMIN_ID)
         => /\ response'.kind = "forbidden"
            /\ UNCHANGED <<users, projects, comments>>]_vars

\* C2: no two users ever share an email, and a valid registration with an
\* email that is already present adds no user, leaves the session as it was
\* and redirects to login.
C2_RegisterNeverDuplicatesEmail ==
    [][/\ \A u \in users', v \in users' : u.email = v.email => u = v
       /\ \A e \in Emails, p \in Passwords, n \in Names, s \in Salts :
            (/\ response'.handler = "register"
             /\ \E u \in users : u.email = e
             /\ register(TRUE, e, p, n, s))
              => /\ users' = users
                 /\ session' = session
                 /\ RedirectsTo(response', "login")]_vars

C2_DuplicateRegistrationRedirected ==
    /\ response.handler = "register"
    /\ RedirectsTo(response, "login")
    /\ Cardinality(users) = 2

\* C3: a comment submitted on a project page by the anonymous user adds no
\* comment and is answered with a redirect to login.
C3_AnonymousCommentNotPersisted ==
    [][\A project_id \in ProjectIds, t \in CommentTexts :
         (show_project(project_id, TRUE, t) /\ current_user = None)
           => /\ comments' = comments
              /\ RedirectsTo(response', "login")]_vars

C3_AnonymousCommentRedirected ==
    /\ response.handler = "show_project"
    /\ response.who = None
    /\ RedirectsTo(response, "login")
    /\ projects # {}

\* C4: logout from any identity leaves the current identity anonymous and
\* redirects to the project list, and an anonymous browser becomes
\* authenticated only by a successful login or registration.
C4_LogoutThenAnonymous ==
    [][/\ response'.handler = "logout"
            => current_user' = None /\ RedirectsTo(response', "get_all_projects")
       /\ (current_user = None /\ current_user' # None)
            => /\ response'.handler \in {"login", "register"}
               /\ RedirectsTo(response', "get_all_projects")]_vars

C4_LoggedOutAfterLogin ==
    /\ response.handler = "logout"
    /\ response.who # None
    /\ current_user = None

\* C5: a valid new-project form of the administrator whose title is that of
\* an existing project is answered with the form rendered again (a handled
\* validation failure), adds no project, and no two projects ever share a
\* title.
C5_DuplicateTitleIsValidationFailure ==
    [][/\ \A p \in projects', q \in projects' : p.title = q.title => p = q
       /\ \A f \in ProjectForms, d \in Days :
            (/\ add_new_project(TRUE, f, d)
             /\ current_user = ADMIN_ID
             /\ \E p \in projects : p.title = f.title)
              => /\ projects' = projects
                 /\ response'.kind = "render"]_vars

\* C6: every comment row references, when it is created, an existing user and
\* an existing project, whatever project id the request names.
C6_NewCommentReferencesLiveRows ==
    [][\A c \in comments' :
         c.id \notin Ids(comments)
           => c.author_id \in Ids(users') /\ c.project_id \in Ids(projects')]_vars

\* C7: a valid login form establishes a session exactly when its email is
\* that of a user whose password it holds, and then for that user; otherwise
\* the session is left as it was and the response redirects to login.  A
\* login request without a valid form leaves the session as it was.
C7_LoginOnlyWithValidCredentials ==
    [][\A e \in Emails, p \in Passwords :
         /\ (response'.handler = "login" /\ login(TRUE, e, p))
              => IF \E u \in users : u.email = e /\ IsPasswordOf(u, p)
                 THEN /\ \E u \in users : u.email = e /\ session' = u.id
                      /\ RedirectsTo(response', "get_all_projects")
                 ELSE /\ session' = session
                      /\ RedirectsTo(response', "login")
         /\ (response'.handler = "login" /\ login(FALSE, e, p))
              => session' = session]_vars

C7_LoginSwitchesIdentity ==
    /\ response.handler = "login"
    /\ RedirectsTo(response, "get_all_projects")
    /\ current_user # None
    /\ response.who # None
    /\ response.who # current_user

\* C8: a show-project request for an id with no project row ends as Not
\* Found and changes no table.
C8_MissingProjectIsNotFound ==
    [][\A project_id \in ProjectIds, r \in Requests(CommentTexts) :
         (show_project(project_id, r.submit, r.form)
            /\ project_id \notin Ids(projects))
           => /\ response'.kind = "not_found"
              /\ UNCHANGED <<users, projects, comments>>]_vars

\* C9: an edit of an existing project by the administrator with a valid form
\* whose title no other project holds replaces the project's title,
\* subtitle, image URL and body by the form's, keeps its id, author and
\* date, changes no other project, no user and no comment, and redirects to
\* the project's page.
C9_EditChangesOnlyFormFields ==
    [][\A project_id \in ProjectIds, f \in ProjectForms :
         (/\ response'.handler = "edit_project"
          /\ current_user = ADMIN_ID
          /\ project_id \in Ids(projects)
          /\ edit_project(project_id, TRUE, f)
          /\ \A q \in projects : q.title = f.title => q.id = project_id)
           => /\ \E p \in projects :
                   /\ p.id = project_id
                   /\ projects' = (projects \ {p}) \cup
                        {[id |-> p.id, author_id |-> p.author_id, date |-> p.date,
                          title |-> f.title, subtitle |-> f.subtitle,
                          img_url |-> f.img_url, body |-> f.body]}
              /\ UNCHANGED <<users, comments>>
              /\ RedirectsTo(response', "show_project")
              /\ response'.pid = project_id]_vars

C9_EditedOneOfTwo ==
    /\ response.handler = "edit_project"
    /\ RedirectsTo(response, "show_project")
    /\ Cardinality(projects) = 2
    /\ comments # {}
    /\ \E p \in projects : p.id = response.pid /\ p.subtitle = <<"subtitle", 2>>

\* C10: a delete of an existing project by the administrator removes that
\* project row and no other, removes no comment and no user, and every
\* comment's project reference is always empty or the id of an existing
\* project.
C10_DeleteOrphansComments ==
    [][/\ \A project_id \in ProjectIds :
            (/\ delete_project(project_id)
             /\ current_user = ADMIN_ID
             /\ project_id \in Ids(projects))
              => /\ projects' = {p \in projects : p.id # project_id}
                 /\ Ids(comments') = Ids(comments)
                 /\ Cardinality(comments') = Cardinality(comments)
                 /\ users' = users
       /\ \A c \in comments' :
            c.project_id = None \/ c.project_id \in Ids(projects')]_vars

C10_DeletedWithComments ==
    /\ response.handler = "delete_project"
    /\ RedirectsTo(response, "get_all_projects")
    /\ projects # {}
    /\ \E c \in comments : c.project_id = None
    /\ \E c \in comments : c.project_id \in Ids(projects)
====
